---- MODULE Spec2Model ----
(***************************************************************************)
(* weather_data.py: a straight-line script that loads data.csv, cleans it, *)
(* prints temperature statistics, writes three charts and exports the      *)
(* cleaned table.                                                          *)
(*                                                                         *)
(* Representation.  A CSV file is a header and lines already split into    *)
(* fields; every field and every column name is a sequence of one-         *)
(* character strings, so formatting and parsing are computed character by  *)
(* character.  Numbers are fixed point with two decimals: the cell 45.5 is *)
(* Num(4550), the sentinel -99.99 is Num(-9999).  A table (DataFrame) is a  *)
(* record of column names, column dtypes, rows of cells, and an index.     *)
(***************************************************************************)
EXTENDS Integers, Sequences, FiniteSets, TLC

VARIABLES
    pc,                \* the statement of the script that runs next
    log,               \* the statements that have run, in order
    data_file,         \* contents of data.csv
    df,                \* the script's variable df
    df_clean,          \* the script's variable df_clean
    shape_temps,       \* row count printed at line 34
    highest_max_temp,  \* line 38
    lowest_max_temp,   \* line 40
    highest_min_temp,  \* line 41
    lowest_min_temp,   \* line 42
    figures,           \* number of open matplotlib figures
    files,             \* chart files written so far
    cleaned_csv        \* contents of cleaned_weather_data.csv

vars == <<pc, log, data_file, df, df_clean, shape_temps, highest_max_temp,
          lowest_max_temp, highest_min_temp, lowest_min_temp, figures, files,
          cleaned_csv>>

\* Largest number of data lines in data.csv.
MaxRows == 2

----------------------------------------------------------------------------
(* Cells *)

NaN == [t |-> "nan"]
NaT == [t |-> "nat"]
Num(v) == [t |-> "num", v |-> v]
Str(s) == [t |-> "str", s |-> s]
Date(y, m, d) == [t |-> "date", y |-> y, m |-> m, d |-> d]

\* pandas.isna on one cell
isna(c) == c.t \in {"nan", "nat"}

----------------------------------------------------------------------------
(* Column names used by the script, as character sequences *)

YEAR == <<"Y", "E", "A", "R">>
MONTH == <<"M", "O", "N", "T", "H">>
DAY == <<"D", "A", "Y">>
MAX_TEMP == <<"M", "A", "X", " ", "T", "E", "M", "P">>
MIN_TEMP == <<"M", "I", "N", " ", "T", "E", "M", "P">>
MEAN_TEMP == <<"M", "E", "A", "N", " ", "T", "E", "M", "P">>
PRECIPITATION == <<"P", "R", "E", "C", "I", "P", "I", "T", "A", "T", "I", "O", "N">>
DATE == <<"D", "A", "T", "E">>

Front(s) == SubSeq(s, 1, Len(s) - 1)

----------------------------------------------------------------------------
(* Text <-> number, character by character *)

Digits == <<"0", "1", "2", "3", "4", "5", "6", "7", "8", "9">>

IsDigit(c) == \E d \in 1..Len(Digits) : Digits[d] = c

DigitVal(c) == (CHOOSE d \in 1..Len(Digits) : Digits[d] = c) - 1

IsDigits(s) == Len(s) > 0 /\ \A i \in 1..Len(s) : IsDigit(s[i])

RECURSIVE NatVal(_)
NatVal(s) == IF s = <<>> THEN 0 ELSE NatVal(Front(s)) * 10 + DigitVal(s[Len(s)])

RECURSIVE NatDigits(_)
NatDigits(n) ==
    IF n < 10 THEN <<Digits[n + 1]>>
    ELSE NatDigits(n \div 10) \o <<Digits[(n % 10) + 1]>>

Unsigned(s) == IF s # <<>> /\ s[1] = "-" THEN Tail(s) ELSE s

DotAt(s) == {i \in 1..Len(s) : s[i] = "."}

\* The field is an integer literal: [-]digits
IsIntText(s) == IsDigits(Unsigned(s))

\* The field is a decimal literal: [-]digits.digits
IsFloatText(s) ==
    LET u == Unsigned(s)
    IN  /\ Cardinality(DotAt(u)) = 1
        /\ LET p == CHOOSE i \in DotAt(u) : TRUE
           IN  IsDigits(SubSeq(u, 1, p - 1)) /\ IsDigits(SubSeq(u, p + 1, Len(u)))

IsNumText(s) == IsIntText(s) \/ IsFloatText(s)

\* Value of a numeric field, in hundredths (digits past the second decimal
\* are beyond the precision of this representation).
ParseNum(s) ==
    LET u == Unsigned(s)
        sign == IF u = s THEN 1 ELSE -1
    IN  IF IsIntText(s) THEN sign * NatVal(u) * 100
        ELSE LET p == CHOOSE i \in DotAt(u) : TRUE
                 frac == SubSeq(u, p + 1, Len(u))
                 f1 == DigitVal(frac[1]) * 10
                 f2 == IF Len(frac) >= 2 THEN DigitVal(frac[2]) ELSE 0
             IN  sign * (NatVal(SubSeq(u, 1, p - 1)) * 100 + f1 + f2)

Abs(v) == IF v < 0 THEN -v ELSE v

Sign(v) == IF v < 0 THEN <<"-">> ELSE <<>>

\* str() of an int64 cell
FmtInt(v) == Sign(v) \o NatDigits(Abs(v) \div 100)

\* FmtFloat with a fixed single decimal ('%.1f')
FmtFloat_1dp(v) ==
    Sign(v) \o NatDigits(Abs(v) \div 100) \o <<".">> \o <<Digits[((Abs(v) % 100) \div 10) + 1]>>

\* repr() of a float64 cell: shortest text that reads back as the value
FmtFloat(v) ==
    LET h == Abs(v) % 100
        frac == IF h % 10 = 0 THEN <<Digits[(h \div 10) + 1]>>
                ELSE <<Digits[(h \div 10) + 1], Digits[(h % 10) + 1]>>
    IN  Sign(v) \o NatDigits(Abs(v) \div 100) \o <<".">> \o frac

\* Left-pad a number with zeros to width w
RECURSIVE ZeroPad(_, _)
ZeroPad(s, w) == IF Len(s) >= w THEN s ELSE ZeroPad(<<"0">> \o s, w)

\* str() of a Timestamp at midnight as to_csv writes it: YYYY-MM-DD
FmtDate(c) ==
    ZeroPad(NatDigits(c.y), 4) \o <<"-">> \o ZeroPad(NatDigits(c.m), 2)
        \o <<"-">> \o ZeroPad(NatDigits(c.d), 2)

----------------------------------------------------------------------------
(* pandas.read_csv *)

Column(rows, j) == [i \in 1..Len(rows) |-> rows[i][j]]

\* dtype inferred for column j of the file
InferDtype(lines, j) ==
    LET col == Column(lines, j)
    IN  IF Len(col) = 0 THEN "object"
        ELSE IF \A i \in 1..Len(col) : IsIntText(col[i]) THEN "int64"
        ELSE IF \A i \in 1..Len(col) : col[i] = <<>> \/ IsNumText(col[i])
             THEN "float64"
        ELSE "object"

ParseCell(dtype, s) ==
    IF s = <<>> THEN NaN
    ELSE IF dtype \in {"int64", "float64"} THEN Num(ParseNum(s))
    ELSE Str(s)

\* The default index: RangeIndex(0, n), unnamed
RangeIndex(n) == [i \in 1..n |-> Num((i - 1) * 100)]

read_csv(file) ==
    LET n == Len(file.header)
        dtypes == [j \in 1..n |-> InferDtype(file.lines, j)]
    IN  [columns |-> file.header,
         dtypes |-> dtypes,
         rows |-> [i \in 1..Len(file.lines) |->
                      [j \in 1..n |-> ParseCell(dtypes[j], file.lines[i][j])]],
         index_name |-> <<>>,
         index |-> RangeIndex(Len(file.lines))]

----------------------------------------------------------------------------
(* Inputs *)

Header == <<YEAR, MONTH, DAY, MAX_TEMP, MIN_TEMP, MEAN_TEMP, PRECIPITATION>>

\* The same header with incidental whitespace around the names
PaddedHeader == [j \in 1..Len(Header) |->
                    IF j % 2 = 0 THEN <<" ">> \o Header[j] ELSE Header[j] \o <<" ">>]

Headers == {Header, PaddedHeader}

\* year, month, day fields: a leap day and an impossible day
DateTexts == {<<<<"2", "0", "2", "0">>, <<"2">>, <<"2", "9">>>>,
              <<<<"2", "0", "2", "0">>, <<"2">>, <<"3", "0">>>>}

MaxTexts == {<<"-", "9", "9", ".", "9">>, <<"4", "0", ".", "0">>,
             <<"4", "5", ".", "5">>}

MinTexts == {<<"-", "9", "9", ".", "9", "9">>, <<"2", "0", ".", "2", "5">>}

\* MEAN TEMP and PRECIPITATION fields: an empty MEAN TEMP with a measured
\* precipitation, or a MEAN TEMP next to the sentinel with the precipitation
\* missing
RestTexts == {<<<<>>, <<"0", ".", "5">>>>,
              <<<<"-", "9", "9", ".", "0">>, <<"-", "9", "9", ".", "9", "9">>>>}

Lines == {d \o <<mx, mn>> \o r :
            d \in DateTexts, mx \in MaxTexts, mn \in MinTexts, r \in RestTexts}

Files == {[header |-> h, lines |-> ls] :
            h \in Headers, ls \in UNION {[1..n -> Lines] : n \in 0..MaxRows}}

NoTable == [columns |-> <<>>, dtypes |-> <<>>, rows |-> <<>>,
            index_name |-> <<>>, index |-> <<>>]

NoFile == [header |-> <<>>, lines |-> <<>>]

Unset == [t |-> "unset"]

----------------------------------------------------------------------------
(* DataFrame operations used by the script *)

HasCol(t, name) == \E j \in 1..Len(t.columns) : t.columns[j] = name

HasCols(t, names) == \A c \in names : HasCol(t, c)

ColIdx(t, name) == CHOOSE j \in 1..Len(t.columns) : t.columns[j] = name

\* df[name] as a sequence of cells
Series(t, name) == Column(t.rows, ColIdx(t, name))

RECURSIVE lstrip(_)
lstrip(s) == IF s # <<>> /\ s[1] = " " THEN lstrip(Tail(s)) ELSE s

RECURSIVE rstrip(_)
rstrip(s) == IF s # <<>> /\ s[Len(s)] = " " THEN rstrip(Front(s)) ELSE s

\* str.strip
strip(s) == rstrip(lstrip(s))

\* line 27: df.columns = df.columns.str.strip()
strip_columns(t) ==
    [t EXCEPT !.columns = [j \in 1..Len(t.columns) |-> strip(t.columns[j])]]

\* Sentinels with -99.99 forgotten
Sentinels_one == {-9990}

\* The values line 29 treats as missing: -99.9 and -99.99
Sentinels == {-9990, -9999}

\* Substitution that first folds -99.9 into -99.99 and nulls only what was
\* already -99.99
ReplaceCell_folded(c) ==
    IF c.t = "num" /\ c.v = -9999 THEN NaN
    ELSE IF c.t = "num" /\ c.v = -9990 THEN Num(-9999)
    ELSE c

ReplaceCell(c) == IF c.t = "num" /\ c.v \in Sentinels THEN NaN ELSE c

\* line 29: df.replace([-99.9, -99.99], np.nan)
replace(t) ==
    [t EXCEPT !.rows = [i \in 1..Len(t.rows) |->
                          [j \in 1..Len(t.rows[i]) |-> ReplaceCell(t.rows[i][j])]]]

\* A row passes dropna(subset) when none of the subset's cells is missing
RowComplete(t, row, subset) == \A c \in subset : ~isna(row[ColIdx(t, c)])

\* dropna with how='all': a row goes only when every cell of the subset is missing
dropna_any(t, subset) ==
    LET zipped == [i \in 1..Len(t.rows) |-> <<t.index[i], t.rows[i]>>]
        ok(p) == \E c \in subset : ~isna(p[2][ColIdx(t, c)])
        kept == SelectSeq(zipped, ok)
    IN  [t EXCEPT !.rows = [i \in 1..Len(kept) |-> kept[i][2]],
                  !.index = [i \in 1..Len(kept) |-> kept[i][1]]]

\* df.dropna(subset=[...]): a new table with the complete rows, in order,
\* each keeping its index label
dropna(t, subset) ==
    LET zipped == [i \in 1..Len(t.rows) |-> <<t.index[i], t.rows[i]>>]
        ok(p) == RowComplete(t, p[2], subset)
        kept == SelectSeq(zipped, ok)
    IN  [t EXCEPT !.rows = [i \in 1..Len(kept) |-> kept[i][2]],
                  !.index = [i \in 1..Len(kept) |-> kept[i][1]]]

IsLeap(y) == (y % 4 = 0 /\ y % 100 # 0) \/ y % 400 = 0

DaysInMonth(y, m) ==
    IF m = 2 THEN (IF IsLeap(y) THEN 29 ELSE 28)
    ELSE IF m \in {4, 6, 9, 11} THEN 30
    ELSE 31

\* year, month, day name a day of the calendar that a Timestamp can hold
IsValidDate(y, m, d) ==
    /\ y \in 1678..2261
    /\ m \in 1..12
    /\ d \in 1..DaysInMonth(y, m)

\* to_datetime that assembles the fields without checking them against the calendar
ToDatetimeCell_unchecked(yc, mc, dc) ==
    IF isna(yc) \/ isna(mc) \/ isna(dc) THEN NaT
    ELSE Date(yc.v \div 100, mc.v \div 100, dc.v \div 100)

\* pd.to_datetime of one row's YEAR, MONTH, DAY with errors='coerce'
ToDatetimeCell(yc, mc, dc) ==
    IF isna(yc) \/ isna(mc) \/ isna(dc) THEN NaT
    ELSE IF yc.t # "num" \/ mc.t # "num" \/ dc.t # "num" THEN NaT
    ELSE IF yc.v % 100 # 0 \/ mc.v % 100 # 0 \/ dc.v % 100 # 0 THEN NaT
    ELSE IF IsValidDate(yc.v \div 100, mc.v \div 100, dc.v \div 100)
         THEN Date(yc.v \div 100, mc.v \div 100, dc.v \div 100)
    ELSE NaT

\* pd.to_datetime(df[['YEAR', 'MONTH', 'DAY']], errors='coerce')
to_datetime(t) ==
    [i \in 1..Len(t.rows) |->
        ToDatetimeCell(t.rows[i][ColIdx(t, YEAR)], t.rows[i][ColIdx(t, MONTH)],
                       t.rows[i][ColIdx(t, DAY)])]

\* df[name] = values: overwrite the column if it exists, else add it last
SetColumn(t, name, dtype, values) ==
    IF HasCol(t, name)
    THEN [t EXCEPT !.dtypes[ColIdx(t, name)] = dtype,
                   !.rows = [i \in 1..Len(t.rows) |->
                                [t.rows[i] EXCEPT ![ColIdx(t, name)] = values[i]]]]
    ELSE [t EXCEPT !.columns = Append(t.columns, name),
                   !.dtypes = Append(t.dtypes, dtype),
                   !.rows = [i \in 1..Len(t.rows) |-> Append(t.rows[i], values[i])]]

\* line 54: df['DATE'] = pd.to_datetime(...)
add_date(t) == SetColumn(t, DATE, "datetime64", to_datetime(t))

Without(s, j) == SubSeq(s, 1, j - 1) \o SubSeq(s, j + 1, Len(s))

\* line 59: set_index(name): the column becomes the index and leaves the columns
set_index(t, name) ==
    LET j == ColIdx(t, name)
    IN  [columns |-> Without(t.columns, j),
         dtypes |-> Without(t.dtypes, j),
         rows |-> [i \in 1..Len(t.rows) |-> Without(t.rows[i], j)],
         index_name |-> name,
         index |-> Column(t.rows, j)]

\* The numbers of a sequence of cells, missing cells skipped
Values(cells) == {cells[i].v : i \in {k \in 1..Len(cells) : cells[k].t = "num"}}

\* max() with a default of 0 on no values
SeriesMax_zero(cells) ==
    IF Values(cells) = {} THEN Num(0)
    ELSE Num(CHOOSE v \in Values(cells) : \A w \in Values(cells) : w <= v)

\* The first value instead of the largest
SeriesMax_first(cells) ==
    IF Values(cells) = {} THEN NaN
    ELSE cells[CHOOSE i \in 1..Len(cells) :
                 cells[i].t = "num" /\ \A k \in 1..(i - 1) : cells[k].t # "num"]

\* Series.max(): NaN on no values
SeriesMax(cells) ==
    IF Values(cells) = {} THEN NaN
    ELSE Num(CHOOSE v \in Values(cells) : \A w \in Values(cells) : w <= v)

\* min() written as max()
SeriesMin_max(cells) ==
    IF Values(cells) = {} THEN NaN
    ELSE Num(CHOOSE v \in Values(cells) : \A w \in Values(cells) : w <= v)

\* Series.min(): NaN on no values
SeriesMin(cells) ==
    IF Values(cells) = {} THEN NaN
    ELSE Num(CHOOSE v \in Values(cells) : \A w \in Values(cells) : v <= w)

\* One cell as to_csv writes it; a missing value is the empty field
FmtCell(dtype, c) ==
    CASE c.t = "num" -> IF dtype = "int64" THEN FmtInt(c.v) ELSE FmtFloat(c.v)
      [] c.t = "str" -> c.s
      [] c.t = "date" -> FmtDate(c)
      [] OTHER -> <<>>

\* line 131: df_clean.to_csv(path, index=True)
to_csv(t) ==
    [header |-> <<t.index_name>> \o t.columns,
     lines |-> [i \in 1..Len(t.rows) |->
                  <<FmtCell("int64", t.index[i])>>
                      \o [j \in 1..Len(t.columns) |-> FmtCell(t.dtypes[j], t.rows[i][j])]]]

----------------------------------------------------------------------------

Init ==
    /\ pc = "load"
    /\ log = <<>>
    /\ data_file \in Files
    /\ df = NoTable
    /\ df_clean = NoTable
    /\ shape_temps = -1
    /\ highest_max_temp = Unset
    /\ lowest_max_temp = Unset
    /\ highest_min_temp = Unset
    /\ lowest_min_temp = Unset
    /\ figures = 0
    /\ files = {}
    /\ cleaned_csv = NoFile

\* Lines 27-62 as one function of the loaded table: the value of df_clean
\* when line 62 has run (the table of line 31 is overwritten at line 55)
Clean(t) ==
    LET substituted == replace(strip_columns(t))
        dated == add_date(substituted)
        valid == set_index(dropna(dated, {DATE}), DATE)
    IN  dropna(valid, {MAX_TEMP, MIN_TEMP, PRECIPITATION})

\* The statements of the script, top to bottom
Program == <<"load", "strip", "replace", "drop_temps", "stats", "add_date",
             "drop_date", "set_index", "drop_final", "plot1", "plot2", "plot3",
             "export", "banner", "close">>

\* The script with the statistics moved below the final drop
After_statsLast(stage) ==
    LET order == <<"load", "strip", "replace", "drop_temps", "add_date",
                   "drop_date", "set_index", "drop_final", "stats", "plot1",
                   "plot2", "plot3", "export", "banner", "close">>
        k == CHOOSE i \in 1..Len(order) : order[i] = stage
    IN  IF k = Len(order) THEN "done" ELSE order[k + 1]

\* The statement after `stage`; "done" after the last
After(stage) ==
    LET k == CHOOSE i \in 1..Len(Program) : Program[i] = stage
    IN  IF k = Len(Program) THEN "done" ELSE Program[k + 1]

\* `stage` runs to its end, or raises (an uncaught exception ends the script)
Advance(stage, ok) ==
    /\ pc = stage
    /\ pc' = IF ok THEN After(stage) ELSE "crashed"
    /\ log' = Append(log, stage)

\* line 11: df = pd.read_csv(data_file)
Load ==
    /\ Advance("load", TRUE)
    /\ df' = read_csv(data_file)
    /\ UNCHANGED <<data_file, df_clean, shape_temps, highest_max_temp,
                   lowest_max_temp, highest_min_temp, lowest_min_temp, figures,
                   files, cleaned_csv>>

\* line 27: df.columns = df.columns.str.strip()
Strip ==
    /\ Advance("strip", TRUE)
    /\ df' = strip_columns(df)
    /\ UNCHANGED <<data_file, df_clean, shape_temps, highest_max_temp,
                   lowest_max_temp, highest_min_temp, lowest_min_temp, figures,
                   files, cleaned_csv>>

\* line 29: df = df.replace([-99.9, -99.99], np.nan)
Replace ==
    /\ Advance("replace", TRUE)
    /\ df' = replace(df)
    /\ UNCHANGED <<data_file, df_clean, shape_temps, highest_max_temp,
                   lowest_max_temp, highest_min_temp, lowest_min_temp, figures,
                   files, cleaned_csv>>

\* lines 31-34: df_clean = df.dropna(subset=['MAX TEMP', 'MIN TEMP']); print shape
DropTemps ==
    LET ok == HasCols(df, {MAX_TEMP, MIN_TEMP})
    IN  /\ Advance("drop_temps", ok)
        /\ df_clean' = IF ok THEN dropna(df, {MAX_TEMP, MIN_TEMP}) ELSE df_clean
        /\ shape_temps' = IF ok THEN Len(df_clean'.rows) ELSE shape_temps
        /\ UNCHANGED <<data_file, df, highest_max_temp, lowest_max_temp,
                       highest_min_temp, lowest_min_temp, figures, files,
                       cleaned_csv>>

\* lines 38-49: the four statistics, computed from df_clean as it is now
Stats ==
    /\ Advance("stats", TRUE)
    /\ highest_max_temp' = SeriesMax(Series(df_clean, MAX_TEMP))
    /\ lowest_max_temp' = SeriesMin(Series(df_clean, MAX_TEMP))
    /\ highest_min_temp' = SeriesMax(Series(df_clean, MIN_TEMP))
    /\ lowest_min_temp' = SeriesMin(Series(df_clean, MIN_TEMP))
    /\ UNCHANGED <<data_file, df, df_clean, shape_temps, figures, files,
                   cleaned_csv>>

\* line 54: df['DATE'] = pd.to_datetime(df[['YEAR', 'MONTH', 'DAY']], errors='coerce')
AddDate ==
    LET ok == HasCols(df, {YEAR, MONTH, DAY})
    IN  /\ Advance("add_date", ok)
        /\ df' = IF ok THEN add_date(df) ELSE df
        /\ UNCHANGED <<data_file, df_clean, shape_temps, highest_max_temp,
                       lowest_max_temp, highest_min_temp, lowest_min_temp,
                       figures, files, cleaned_csv>>

\* line 55: df_clean = df.dropna(subset=['DATE'])
DropDate ==
    /\ Advance("drop_date", TRUE)
    /\ df_clean' = dropna(df, {DATE})
    /\ UNCHANGED <<data_file, df, shape_temps, highest_max_temp,
                   lowest_max_temp, highest_min_temp, lowest_min_temp, figures,
                   files, cleaned_csv>>

\* line 59: df_clean.set_index('DATE', inplace=True)
SetIndex ==
    /\ Advance("set_index", TRUE)
    /\ df_clean' = set_index(df_clean, DATE)
    /\ UNCHANGED <<data_file, df, shape_temps, highest_max_temp,
                   lowest_max_temp, highest_min_temp, lowest_min_temp, figures,
                   files, cleaned_csv>>

\* line 62: df_clean = df_clean.dropna(subset=['MAX TEMP', 'MIN TEMP', 'PRECIPITATION'])
DropFinal ==
    LET ok == HasCols(df_clean, {MAX_TEMP, MIN_TEMP, PRECIPITATION})
    IN  /\ Advance("drop_final", ok)
        /\ df_clean' = IF ok THEN dropna(df_clean, {MAX_TEMP, MIN_TEMP, PRECIPITATION})
                       ELSE df_clean
        /\ UNCHANGED <<data_file, df, shape_temps, highest_max_temp,
                       lowest_max_temp, highest_min_temp, lowest_min_temp,
                       figures, files, cleaned_csv>>

\* plt.figure(...); plt.plot(df_clean.index, df_clean[c]) ...; plt.savefig(name)
Plot(stage, cols, name) ==
    LET ok == HasCols(df_clean, cols)
    IN  /\ Advance(stage, ok)
        /\ figures' = figures + 1
        /\ files' = IF ok THEN files \cup {name} ELSE files
        /\ UNCHANGED <<data_file, df, df_clean, shape_temps, highest_max_temp,
                       lowest_max_temp, highest_min_temp, lowest_min_temp,
                       cleaned_csv>>

\* lines 75-94
Plot1 == Plot("plot1", {MAX_TEMP, MIN_TEMP}, "temperatures_over_time.png")

\* lines 97-111
Plot2 == Plot("plot2", {PRECIPITATION}, "precipitation_over_time.png")

\* lines 114-128
Plot3 == Plot("plot3", {MEAN_TEMP}, "mean_temperature_over_time.png")

\* line 131: df_clean.to_csv('cleaned_weather_data.csv', index=True)
Export ==
    /\ Advance("export", TRUE)
    /\ cleaned_csv' = to_csv(df_clean)
    /\ UNCHANGED <<data_file, df, df_clean, shape_temps, highest_max_temp,
                   lowest_max_temp, highest_min_temp, lowest_min_temp, figures,
                   files>>

\* lines 134-144: the banner formats df_clean.index.min() and .max() with
\* strftime; on an empty index both are NaT, whose strftime raises ValueError
Banner ==
    /\ Advance("banner", Len(df_clean.index) > 0)
    /\ UNCHANGED <<data_file, df, df_clean, shape_temps, highest_max_temp,
                   lowest_max_temp, highest_min_temp, lowest_min_temp, figures,
                   files, cleaned_csv>>

\* lines 147-148: plt.close('all')
Close ==
    /\ Advance("close", TRUE)
    /\ figures' = 0
    /\ UNCHANGED <<data_file, df, df_clean, shape_temps, highest_max_temp,
                   lowest_max_temp, highest_min_temp, lowest_min_temp, files,
                   cleaned_csv>>

Next ==
    \/ Load
    \/ Strip
    \/ Replace
    \/ DropTemps
    \/ Stats
    \/ AddDate
    \/ DropDate
    \/ SetIndex
    \/ DropFinal
    \/ Plot1
    \/ Plot2
    \/ Plot3
    \/ Export
    \/ Banner
    \/ Close

Spec == Init /\ [][Next]_vars

----------------------------------------------------------------------------
(* Vocabulary of the properties *)

Ran(stage) == \E i \in 1..Len(log) : log[i] = stage

\* `stage` has run to its end
Completed(stage) ==
    Ran(stage) /\ ~(pc = "crashed" /\ log[Len(log)] = stage)

Present(c) == c.t = "num"

CellOf(t, row, name) == row[ColIdx(t, name)]

MaxOf(S) == CHOOSE v \in S : \A w \in S : w <= v

MinOf(S) == CHOOSE v \in S : \A w \in S : v <= w

\* The numbers in column `name` of the rows of t
NumbersOf(t, name) ==
    {CellOf(t, t.rows[i], name).v :
        i \in {k \in 1..Len(t.rows) : Present(CellOf(t, t.rows[k], name))}}

HighestOf(t, name) ==
    IF NumbersOf(t, name) = {} THEN NaN ELSE Num(MaxOf(NumbersOf(t, name)))

LowestOf(t, name) ==
    IF NumbersOf(t, name) = {} THEN NaN ELSE Num(MinOf(NumbersOf(t, name)))

\* The row has both temperatures after sentinel substitution
HasTemps(t, row) ==
    Present(CellOf(t, row, MAX_TEMP)) /\ Present(CellOf(t, row, MIN_TEMP))

HasPrecip(t, row) == Present(CellOf(t, row, PRECIPITATION))

\* YEAR, MONTH, DAY of the row form a calendar date
HasValidDate(t, row) ==
    /\ Present(CellOf(t, row, YEAR))
    /\ Present(CellOf(t, row, MONTH))
    /\ Present(CellOf(t, row, DAY))
    /\ IsValidDate(CellOf(t, row, YEAR).v \div 100, CellOf(t, row, MONTH).v \div 100,
                   CellOf(t, row, DAY).v \div 100)

\* The rows of t, with their labels, that pass Test, in order
Filter(t, Test(_)) ==
    LET zipped == [i \in 1..Len(t.rows) |-> <<t.index[i], t.rows[i]>>]
        ok(p) == Test(p[2])
        kept == SelectSeq(zipped, ok)
    IN  [t EXCEPT !.rows = [i \in 1..Len(kept) |-> kept[i][2]],
                  !.index = [i \in 1..Len(kept) |-> kept[i][1]]]

\* data.csv as loaded, names stripped, before any substitution
Raw == strip_columns(read_csv(data_file))

\* A cell of the loaded table that is still a value after substitution
PresentAfterSubstitution(c) == c.t = "num" /\ c.v # -9990 /\ c.v # -9999

RawSurvives(raw, row) ==
    /\ PresentAfterSubstitution(CellOf(raw, row, MAX_TEMP))
    /\ PresentAfterSubstitution(CellOf(raw, row, MIN_TEMP))
    /\ PresentAfterSubstitution(CellOf(raw, row, PRECIPITATION))
    /\ HasValidDate(raw, row)

----------------------------------------------------------------------------
(* C1 *)

----------------------------------------------------------------------------
(* C2 *)

\* C2 as stated: the four statistics are the max and min of MAX TEMP and
\* MIN TEMP over the final cleaned table.
C2_StatsOverFinalTable ==
    Completed("drop_final") =>
        /\ highest_max_temp = HighestOf(df_clean, MAX_TEMP)
        /\ lowest_max_temp = LowestOf(df_clean, MAX_TEMP)
        /\ highest_min_temp = HighestOf(df_clean, MIN_TEMP)
        /\ lowest_min_temp = LowestOf(df_clean, MIN_TEMP)

\* C2 amended: the four statistics are the max and min of MAX TEMP and
\* MIN TEMP over the rows of the substituted table that have both
\* temperatures, whatever their date and precipitation.
C2_StatsOverTemperatureRows ==
    Completed("stats") =>
        LET temps == Filter(df, LAMBDA row : HasTemps(df, row))
        IN  /\ highest_max_temp = HighestOf(temps, MAX_TEMP)
            /\ lowest_max_temp = LowestOf(temps, MAX_TEMP)
            /\ highest_min_temp = HighestOf(temps, MIN_TEMP)
            /\ lowest_min_temp = LowestOf(temps, MIN_TEMP)

\* Statistics taken over two rows with different MAX TEMP, one of which does
\* not reach the final table
C2_Witness ==
    /\ pc = "done"
    /\ highest_max_temp # lowest_max_temp
    /\ highest_max_temp # HighestOf(df_clean, MAX_TEMP)

----------------------------------------------------------------------------
(* C3 *)

\* C3 as stated: the statistics are read only after all the cleaning steps
\* (strip, substitution, temperature drop, date construction, date drop,
\* index, final drop) have run.
C3_SummarizerAfterCleaner ==
    Ran("stats") =>
        \A step \in {"strip", "replace", "drop_temps", "add_date", "drop_date",
                     "set_index", "drop_final"} : Ran(step)

\* C3 amended: the statements run once each in the order load, strip,
\* substitution, temperature drop, statistics, date construction, date drop,
\* index, final drop, three charts, export, banner, release: the statistics
\* are read between the temperature drop and the date construction; when the
\* final drop has run, df_clean is lines 27-62 applied to the loaded file,
\* and in every later state it is still lines 55-62 applied to df.
C3_StatementsInScriptOrder ==
    LET order == <<"load", "strip", "replace", "drop_temps", "stats", "add_date",
                   "drop_date", "set_index", "drop_final", "plot1", "plot2",
                   "plot3", "export", "banner", "close">>
    IN  /\ Len(log) <= Len(order)
        /\ log = SubSeq(order, 1, Len(log))
        /\ pc # "crashed" => pc = (IF Len(log) = Len(order) THEN "done"
                                   ELSE order[Len(log) + 1])
        /\ pc = "plot1" => df_clean = Clean(read_csv(data_file))
        /\ Completed("drop_final") =>
               df_clean = dropna(set_index(dropna(df, {DATE}), DATE),
                                 {MAX_TEMP, MIN_TEMP, PRECIPITATION})

\* A complete run: all fifteen statements have run
C3_Witness ==
    /\ pc = "done"
    /\ Len(log) = 15
    /\ Len(df_clean.rows) > 0

----------------------------------------------------------------------------
(* C4 *)

\* C4: right after the substitution of line 29, df has the columns, the
\* number of rows and the index of the loaded table, and every cell is NaN
\* where the loaded cell is -99.9 or -99.99 and the loaded cell elsewhere.
C4_SubstitutionOnlySentinels ==
    pc = "drop_temps" =>
        LET raw == Raw
        IN  /\ df.columns = raw.columns
            /\ df.index = raw.index
            /\ Len(df.rows) = Len(raw.rows)
            /\ \A i \in 1..Len(raw.rows) :
                  /\ Len(df.rows[i]) = Len(raw.rows[i])
                  /\ \A j \in 1..Len(raw.rows[i]) :
                        df.rows[i][j] =
                            IF raw.rows[i][j] \in {Num(-9990), Num(-9999)} THEN NaN
                            ELSE raw.rows[i][j]

\* A table in which a -99.9, a -99.99 and a -99.0 were loaded: the first two
\* are now NaN, the third is unchanged
C4_Witness ==
    /\ pc = "drop_temps"
    /\ \E i \in 1..Len(df.rows) :
          /\ CellOf(Raw, Raw.rows[i], MAX_TEMP) = Num(-9990)
          /\ CellOf(Raw, Raw.rows[i], MIN_TEMP) = Num(-9999)
          /\ CellOf(df, df.rows[i], MAX_TEMP) = NaN
          /\ CellOf(df, df.rows[i], MEAN_TEMP) = Num(-9900)

----------------------------------------------------------------------------
(* C5 *)

\* C5: cleaning the cleaned table again (lines 27-62 applied to df_clean)
\* gives the same table.
C5_CleanIdempotent ==
    Completed("drop_final") => Clean(df_clean) = df_clean

\* A cleaned table with a row left in it, obtained by dropping another
C5_Witness ==
    /\ pc = "done"
    /\ Len(df_clean.rows) = 1
    /\ Len(df.rows) = 2
    /\ Clean(df_clean) = df_clean

----------------------------------------------------------------------------
(* C6 *)

----------------------------------------------------------------------------
(* C7 *)

\* C7 as stated: a run that has written the three charts ends with the
\* export written and every canvas released.
C7_ChartsThenExportThenRelease ==
    (pc \in {"done", "crashed"} /\ Cardinality(files) = 3) =>
        /\ Ran("export")
        /\ pc = "done"
        /\ figures = 0

----------------------------------------------------------------------------
(* C8 *)

\* C8 as stated: when the final cleaned table is empty, each of the four
\* statistics is NaN.
C8_EmptyFinalTableGivesNaN ==
    (Completed("drop_final") /\ Len(df_clean.rows) = 0) =>
        /\ highest_max_temp = NaN
        /\ lowest_max_temp = NaN
        /\ highest_min_temp = NaN
        /\ lowest_min_temp = NaN

\* C8 amended: when no row has both temperatures after substitution (the
\* table of line 31 is empty), the statistics statement runs to its end and
\* each of the four statistics is NaN.
C8_NoTemperatureRowsGivesNaN ==
    (Ran("stats") /\ \A i \in 1..Len(df.rows) : ~HasTemps(df, df.rows[i])) =>
        /\ Completed("stats")
        /\ highest_max_temp = NaN
        /\ lowest_max_temp = NaN
        /\ highest_min_temp = NaN
        /\ lowest_min_temp = NaN

\* Statistics computed on a loaded table of two rows, none with both temperatures
C8_Witness ==
    /\ pc = "add_date"
    /\ Len(df.rows) = 2
    /\ shape_temps = 0
    /\ highest_max_temp = NaN

----------------------------------------------------------------------------
(* C9 *)

\* C9 as stated: every row of the table after the date drop (line 55) is a
\* row of the table after the temperature drop (line 31).
C9_DateDropWithinTemperatureDrop ==
    pc = "set_index" =>
        \A i \in 1..Len(df_clean.rows) : HasTemps(df_clean, df_clean.rows[i])

\* C9 amended: the temperature drop (line 31) and the date drop (line 55)
\* each filter the substituted table df, and the final drop (line 62)
\* filters the date-indexed result of the date drop: every row of the final
\* table is a row of the date-drop table, which may hold rows the
\* temperature drop removed; the final table is the same whichever order
\* the three drops are applied in.
C9_EachDropFiltersItsInput ==
    [][
        /\ (pc = "drop_temps" /\ pc' = "stats") =>
               df_clean' = Filter(df, LAMBDA row : HasTemps(df, row))
        /\ pc = "drop_date" =>
               df_clean' = Filter(df, LAMBDA row : ~isna(CellOf(df, row, DATE)))
        /\ (pc = "drop_final" /\ pc' = "plot1") =>
               LET T(t) == Filter(t, LAMBDA row : HasTemps(t, row))
                   D(t) == Filter(t, LAMBDA row : ~isna(CellOf(t, row, DATE)))
                   P(t) == Filter(t, LAMBDA row : HasTemps(t, row) /\ HasPrecip(t, row))
               IN  /\ df_clean' = P(df_clean)
                   /\ df_clean' = set_index(P(D(T(df))), DATE)
                   /\ df_clean' = set_index(D(P(T(df))), DATE)
                   /\ df_clean' = set_index(P(T(D(df))), DATE)
                   /\ df_clean' = set_index(T(P(D(df))), DATE)
                   /\ df_clean' = set_index(D(T(P(df))), DATE)
                   /\ df_clean' = set_index(T(D(P(df))), DATE)
    ]_vars

\* The date-drop table holds a row without MAX TEMP, which line 31 removed
C9_Witness ==
    /\ pc = "set_index"
    /\ shape_temps < Len(df_clean.rows)
    /\ \E i \in 1..Len(df_clean.rows) : CellOf(df_clean, df_clean.rows[i], MAX_TEMP) = NaN

----------------------------------------------------------------------------
(* C10 *)

\* C10: every row of the final table is one of the rows with both
\* temperatures that the statistics were computed over; so the count printed
\* at line 34 is at least the final count, and on a non-empty final table
\* highest_max_temp is at least every MAX TEMP of it and lowest_min_temp at
\* most every MIN TEMP of it.
C10_StatsRowsIncludeFinalRows ==
    Completed("drop_final") =>
        LET temps == Filter(df, LAMBDA row : HasTemps(df, row))
            j == ColIdx(df, DATE)
        IN  /\ shape_temps = Len(temps.rows)
            /\ \A i \in 1..Len(df_clean.rows) :
                  \E k \in 1..Len(temps.rows) :
                      /\ Without(temps.rows[k], j) = df_clean.rows[i]
                      /\ temps.rows[k][j] = df_clean.index[i]
            /\ shape_temps >= Len(df_clean.rows)
            /\ Len(df_clean.rows) > 0 =>
                  /\ Present(highest_max_temp)
                  /\ Present(lowest_min_temp)
                  /\ \A v \in NumbersOf(df_clean, MAX_TEMP) : highest_max_temp.v >= v
                  /\ \A v \in NumbersOf(df_clean, MIN_TEMP) : lowest_min_temp.v <= v

\* The statistics cover a row that the final table lacks, and the printed
\* highest MAX TEMP is above every MAX TEMP of the final table
C10_Witness ==
    /\ pc = "done"
    /\ shape_temps > Len(df_clean.rows)
    /\ Len(df_clean.rows) > 0
    /\ highest_max_temp.v > MaxOf(NumbersOf(df_clean, MAX_TEMP))

====
